---- MODULE Spec2Model ----
(***************************************************************************)
(* A model of trainerroad/api.py: the TrainerRoad client (one instance),   *)
(* the HTTP requests it sends, and the web service it talks to.  Every     *)
(* public operation of the client is one action; the service's answers    *)
(* (status codes, what it does with a posted form) are chosen by the       *)
(* environment inside the action, request by request.                      *)
(***************************************************************************)
EXTENDS Integers, Sequences, FiniteSets, TLC

(***************************************************************************)
(* Bounds of the model.                                                    *)
(***************************************************************************)
\* requests.Session objects the client creates (calls of connect) in the
\* runs of SpecSessions
MaxSessions == 2
\* the same in the runs of Spec
MaxConnects == 1
\* names of the service's form that change (by an edit made on the service
\* side, or by a post)
MaxChanges == 1

(***************************************************************************)
(* Class attributes of TrainerRoad.                                        *)
(***************************************************************************)
_ftp == "Ftp"
_weight == "Weight"
_input_data_names == <<_ftp, _weight, "Marketing">>
_select_data_names ==
    <<"TimeZoneId", "IsMale", "IsPrivate", "Units", "IsVirtualPowerEnabled", "TimeZoneId">>
_login_url == "https://www.trainerroad.com/login"
_logout_url == "https://www.trainerroad.com/logout"
_rider_url == "https://www.trainerroad.com/profile/rider-information"
_rvt == "__RequestVerificationToken"

Range(s) == {s[i] : i \in 1..Len(s)}

\* the names the profile page is searched for
FormNames == {_rvt} \cup Range(_input_data_names) \cup Range(_select_data_names)

(***************************************************************************)
(* Python values and str().                                                *)
(***************************************************************************)
PyInt(i) == [t |-> "int", i |-> i]
PyStr(s) == [t |-> "str", s |-> s]

Digit(d) ==
    CASE d = 0 -> "0" [] d = 1 -> "1" [] d = 2 -> "2" [] d = 3 -> "3" [] d = 4 -> "4"
      [] d = 5 -> "5" [] d = 6 -> "6" [] d = 7 -> "7" [] d = 8 -> "8" [] d = 9 -> "9"

RECURSIVE Decimal(_)
Decimal(n) == IF n < 10 THEN Digit(n) ELSE Decimal(n \div 10) \o Digit(n % 10)

\* str(value) of line 127
str(v) ==
    IF v.t = "int"
    THEN (IF v.i < 0 THEN "-" \o Decimal(0 - v.i) ELSE Decimal(v.i))
    ELSE v.s

(***************************************************************************)
(* The exceptions the code raises, as "class: message".                    *)
(***************************************************************************)
NoError == "ok"
ErrLogin(code) ==
    "RuntimeError: Error loging in to TrainerRoad (Code " \o Decimal(code) \o ")"
ErrLogout(code) ==
    "RuntimeError: Error loging out of TrainerRoad (Code " \o Decimal(code) \o ")"
ErrNotFound(name) == "RuntimeError: Input " \o name \o " not found in form"
ErrNotConnected == "RuntimeError: Not Connected"
ErrGet(code) ==
    "RuntimeError: Error getting info from TrainerRoad (Code " \o Decimal(code) \o ")"
ErrPost(code) ==
    "RuntimeError: Error posting info to TrainerRoad (Code " \o Decimal(code) \o ")"
ErrKey(key) == "ValueError: Key \"" \o key \o "\" is not in profile form"
ErrVerify == "RuntimeError: Failed to verify profile"
\* self._session.get with self._session None (line 44)
ErrNoneType == "AttributeError: 'NoneType' object has no attribute 'get'"

(***************************************************************************)
(* The environment: status codes, the values callers pass, the service's   *)
(* form.                                                                   *)
(***************************************************************************)
\* the statuses the service answers a login or a logout with
LoginStatuses == {200, 302, 500}
\* the statuses it answers a request for the profile page with: 302 is the one
\* a login accepts and a profile request does not
ProfileStatuses == {200, 302, 404}
\* the values callers write
PyValues == {PyInt(260), PyStr("260")}
WriteKeys == (FormNames \ {_rvt}) \cup {"Bogus"}

\* self._session is None
None == 0

EmptyMap == [k \in {} |-> ""]

\* What the service's profile page holds to begin with: for each name, the
\* values of the matching elements of the form, in document order.
DefaultForm ==
    [n \in FormNames |->
        CASE n = _rvt -> <<"tok-A">>
          [] n = _ftp -> <<"250">>
          [] n = _weight -> <<"75">>
          [] n = "Marketing" -> <<"true", "false">>
          [] n = "TimeZoneId" -> <<"UTC">>
          [] n = "IsMale" -> <<"True">>
          [] n = "IsPrivate" -> <<"False">>
          [] n = "Units" -> <<"Metric">>
          [] n = "IsVirtualPowerEnabled" -> <<"False">>]

\* what a service-side change can put in place of the elements of name n:
\* none, or one with another value
Alternatives(n) == IF n = _rvt THEN {<< >>, <<"tok-B">>} ELSE {<< >>, <<"0">>}

\* the page an unauthenticated session is given: no profile form on it
LoginPage == [n \in FormNames |-> << >>]

VARIABLES
    session,    \* self._session: None or the identity of a requests.Session
    created,    \* how many requests.Session objects connect() has created
    loggedIn,   \* service side: the sessions that are logged in
    form,       \* service side: the profile form
    changes,    \* how many times the service's form changed
    inScope,    \* a "with" block on the client is open
    opened,     \* the sessions created since the "with" block was entered
    idle,       \* no connect() since construction or the last successful disconnect()
    last        \* the most recent step: operation, arguments, outcome, requests sent

vars == <<session, created, loggedIn, form, changes, inScope, opened, idle, last>>

(***************************************************************************)
(* HTTP.  A request as the service sees it, with its answer: data is the   *)
(* form-encoded body sent (empty for a GET), page the form on the page     *)
(* returned (for each name, the values of the matching elements).          *)
(***************************************************************************)
Request(method, url, sid, status, data, page) ==
    [method |-> method, url |-> url, sid |-> sid, status |-> status,
     data |-> data, page |-> page]

\* the service carries out a login or a logout that it answers with 200 or
\* with a redirect
Accepts(status) == status \in {200, 302}

\* the profile page as the service gives it to session sid when its form is f
Served(f, sid, status) ==
    IF status = 200 /\ sid \in loggedIn THEN f ELSE LoginPage

\* what the service may do with a posted form it answers 200 to: store it,
\* ignore it, or store it and put other elements in place of those of a name
Ignore == [kind |-> "ignore", name |-> "", elems |-> << >>]

PostBehaviours ==
    {[kind |-> "store", name |-> "", elems |-> << >>], Ignore}
    \cup UNION {{[kind |-> "alter", name |-> n, elems |-> a] : a \in Alternatives(n)} :
                    n \in FormNames}

\* the service's form after a POST of data that it answers with status
Posted(f, data, status, beh) ==
    LET stored == [n \in FormNames |->
                      IF n \in DOMAIN data /\ n # _rvt
                      THEN <<data[n]>> \o (IF f[n] = << >> THEN << >> ELSE Tail(f[n]))
                      ELSE f[n]]
    IN  IF status # 200 \/ beh.kind = "ignore" THEN f
        ELSE IF beh.kind = "store" THEN stored
        ELSE [stored EXCEPT ![beh.name] = beh.elems]

(***************************************************************************)
(* The methods of TrainerRoad, as operators from the state and the         *)
(* service's answers to the method's outcome.                              *)
(***************************************************************************)
\* the login data of connect()
Credentials == [Username |-> "alice", Password |-> "pw"]

\* connect() taking a redirect for a failure
connect_only_200(status) ==
    LET new == created + 1
        ok == status = 200
    IN  [session |-> new,
         loggedIn |-> IF Accepts(status) THEN loggedIn \cup {new} ELSE loggedIn,
         err |-> IF ok THEN NoError ELSE ErrLogin(status),
         log |-> <<Request("POST", _login_url, new, status, Credentials, LoginPage)>>]

connect(status) ==
    LET new == created + 1
        ok == ~((status # 200) /\ (status # 302))
    IN  [session |-> new,
         loggedIn |-> IF Accepts(status) THEN loggedIn \cup {new} ELSE loggedIn,
         err |-> IF ok THEN NoError ELSE ErrLogin(status),
         log |-> <<Request("POST", _login_url, new, status, Credentials, LoginPage)>>]

\* disconnect() without line 49
disconnect_keeps_session(status) ==
    LET ok == ~((status # 200) /\ (status # 302))
    IN  IF session = None
        THEN [session |-> session, loggedIn |-> loggedIn, err |-> ErrNoneType, log |-> << >>]
        ELSE [session |-> session,
              loggedIn |-> IF Accepts(status) THEN loggedIn \ {session} ELSE loggedIn,
              err |-> IF ok THEN NoError ELSE ErrLogout(status),
              log |-> <<Request("GET", _logout_url, session, status, EmptyMap, LoginPage)>>]

disconnect(status) ==
    LET ok == ~((status # 200) /\ (status # 302))
    IN  IF session = None
        THEN [session |-> session, loggedIn |-> loggedIn, err |-> ErrNoneType, log |-> << >>]
        ELSE [session |-> IF ok THEN None ELSE session,
              loggedIn |-> IF Accepts(status) THEN loggedIn \ {session} ELSE loggedIn,
              err |-> IF ok THEN NoError ELSE ErrLogout(status),
              log |-> <<Request("GET", _logout_url, session, status, EmptyMap, LoginPage)>>]

\* tree.xpath(...) of _parse_value: the values of the inputs of that name
_parse_value(tree, name) ==
    LET rtn == tree[name]
    IN  IF rtn = << >> THEN [err |-> ErrNotFound(name), value |-> ""]
        ELSE [err |-> NoError, value |-> rtn[1]]

\* _parse_name without lines 69-70
_parse_name_lenient(tree, name) ==
    LET rtn == tree[name]
    IN  IF rtn = << >> THEN [err |-> NoError, value |-> ""]
        ELSE [err |-> NoError, value |-> rtn[1]]

\* tree.xpath(...) of _parse_name: the values of the selected options of the
\* selects of that name
_parse_name(tree, name) ==
    LET rtn == tree[name]
    IN  IF rtn = << >> THEN [err |-> ErrNotFound(name), value |-> ""]
        ELSE [err |-> NoError, value |-> rtn[1]]

_get(url, status, f) ==
    IF session = None
    THEN [err |-> ErrNotConnected, log |-> << >>, page |-> LoginPage]
    ELSE [err |-> IF status # 200 THEN ErrGet(status) ELSE NoError,
          log |-> <<Request("GET", url, session, status, EmptyMap, Served(f, session, status))>>,
          page |-> Served(f, session, status)]

\* _post sending the request again when it fails
_post_retry(url, data, status) ==
    IF session = None
    THEN [err |-> ErrNotConnected, log |-> << >>]
    ELSE [err |-> IF status # 200 THEN ErrPost(status) ELSE NoError,
          log |-> IF status # 200
                  THEN <<Request("POST", url, session, status, data, LoginPage),
                         Request("POST", url, session, status, data, LoginPage)>>
                  ELSE <<Request("POST", url, session, status, data, LoginPage)>>]

_post(url, data, status) ==
    IF session = None
    THEN [err |-> ErrNotConnected, log |-> << >>]
    ELSE [err |-> IF status # 200 THEN ErrPost(status) ELSE NoError,
          log |-> <<Request("POST", url, session, status, data, LoginPage)>>]

\* _read_profile against a service whose form is f and which answers status
_read_profile(status, f) ==
    LET r == _get(_rider_url, status, f)
        \* the parses in the order the code makes them
        parses == <<_parse_value(r.page, _rvt)>>
                  \o [i \in 1..Len(_input_data_names) |->
                         _parse_value(r.page, _input_data_names[i])]
                  \o [i \in 1..Len(_select_data_names) |->
                         _parse_name(r.page, _select_data_names[i])]
        raising == {i \in 1..Len(parses) : parses[i].err # NoError}
        first == CHOOSE i \in raising : \A j \in raising : i <= j
        input_data == [k \in Range(_input_data_names) |-> _parse_value(r.page, k).value]
        select_data == [k \in Range(_select_data_names) |-> _parse_name(r.page, k).value]
    IN  IF r.err # NoError
        THEN [err |-> r.err, data |-> EmptyMap, token |-> "", log |-> r.log]
        ELSE IF raising # {}
        THEN [err |-> parses[first].err, data |-> EmptyMap, token |-> "", log |-> r.log]
        ELSE [err |-> NoError, data |-> input_data @@ select_data,
              token |-> parses[1].value, log |-> r.log]

\* the loop without lines 124-126
RECURSIVE Update_unchecked(_, _, _)
Update_unchecked(data, items, i) ==
    IF i > Len(items) THEN [err |-> NoError, data |-> data]
    ELSE Update_unchecked(
             [k \in DOMAIN data \cup {items[i][1]} |->
                 IF k = items[i][1] THEN str(items[i][2]) ELSE data[k]],
             items, i + 1)

\* the loop of lines 123-127 from its i-th iteration on; items is
\* new_values.items(), a sequence of <<key, value>>
RECURSIVE Update(_, _, _)
Update(data, items, i) ==
    IF i > Len(items) THEN [err |-> NoError, data |-> data]
    ELSE IF items[i][1] \notin DOMAIN data
    THEN [err |-> ErrKey(items[i][1]), data |-> data]
    ELSE Update([data EXCEPT ![items[i][1]] = str(items[i][2])], items, i + 1)

\* _write_profile posting the map as read
_write_profile_posts_read(new_values, s1, s2, s3, beh) ==
    LET r1 == _read_profile(s1, form)
        u == Update(r1.data, new_values, 1)
        data == u.data
        body == r1.data @@ [k \in {_rvt} |-> r1.token]
        p == _post(_rider_url, body, s2)
        after == Posted(form, body, s2, beh)
        r2 == _read_profile(s3, after)
    IN  IF r1.err # NoError THEN [err |-> r1.err, log |-> r1.log, form |-> form]
        ELSE IF u.err # NoError THEN [err |-> u.err, log |-> r1.log, form |-> form]
        ELSE IF p.err # NoError THEN [err |-> p.err, log |-> r1.log \o p.log, form |-> after]
        ELSE IF r2.err # NoError
        THEN [err |-> r2.err, log |-> r1.log \o p.log \o r2.log, form |-> after]
        ELSE [err |-> IF data = r2.data THEN NoError ELSE ErrVerify,
              log |-> r1.log \o p.log \o r2.log, form |-> after]

\* _write_profile without the comparison of lines 140-143
_write_profile_no_verify(new_values, s1, s2, s3, beh) ==
    LET r1 == _read_profile(s1, form)
        u == Update(r1.data, new_values, 1)
        data == u.data
        body == data @@ [k \in {_rvt} |-> r1.token]
        p == _post(_rider_url, body, s2)
        after == Posted(form, body, s2, beh)
        r2 == _read_profile(s3, after)
    IN  IF r1.err # NoError THEN [err |-> r1.err, log |-> r1.log, form |-> form]
        ELSE IF u.err # NoError THEN [err |-> u.err, log |-> r1.log, form |-> form]
        ELSE IF p.err # NoError THEN [err |-> p.err, log |-> r1.log \o p.log, form |-> after]
        ELSE IF r2.err # NoError
        THEN [err |-> r2.err, log |-> r1.log \o p.log \o r2.log, form |-> after]
        ELSE [err |-> NoError, log |-> r1.log \o p.log \o r2.log, form |-> after]

\* _write_profile posting the token of the first page the client was ever
\* given instead of the one it has just read
_write_profile_stale_token(new_values, s1, s2, s3, beh) ==
    LET r1 == _read_profile(s1, form)
        u == Update(r1.data, new_values, 1)
        data == u.data
        body == data @@ [k \in {_rvt} |-> DefaultForm[_rvt][1]]
        p == _post(_rider_url, body, s2)
        after == Posted(form, body, s2, beh)
        r2 == _read_profile(s3, after)
    IN  IF r1.err # NoError THEN [err |-> r1.err, log |-> r1.log, form |-> form]
        ELSE IF u.err # NoError THEN [err |-> u.err, log |-> r1.log, form |-> form]
        ELSE IF p.err # NoError THEN [err |-> p.err, log |-> r1.log \o p.log, form |-> after]
        ELSE IF r2.err # NoError
        THEN [err |-> r2.err, log |-> r1.log \o p.log \o r2.log, form |-> after]
        ELSE [err |-> IF data = r2.data THEN NoError ELSE ErrVerify,
              log |-> r1.log \o p.log \o r2.log, form |-> after]

\* _write_profile: s1, s2, s3 are the statuses of its three requests and beh
\* what the service does with the post; form is the service's form afterwards
_write_profile(new_values, s1, s2, s3, beh) ==
    LET r1 == _read_profile(s1, form)
        u == Update(r1.data, new_values, 1)
        data == u.data
        body == data @@ [k \in {_rvt} |-> r1.token]
        p == _post(_rider_url, body, s2)
        after == Posted(form, body, s2, beh)
        r2 == _read_profile(s3, after)
    IN  IF r1.err # NoError THEN [err |-> r1.err, log |-> r1.log, form |-> form]
        ELSE IF u.err # NoError THEN [err |-> u.err, log |-> r1.log, form |-> form]
        ELSE IF p.err # NoError THEN [err |-> p.err, log |-> r1.log \o p.log, form |-> after]
        ELSE IF r2.err # NoError
        THEN [err |-> r2.err, log |-> r1.log \o p.log \o r2.log, form |-> after]
        ELSE [err |-> IF data = r2.data THEN NoError ELSE ErrVerify,
              log |-> r1.log \o p.log \o r2.log, form |-> after]

(***************************************************************************)
(* The state machine.                                                      *)
(***************************************************************************)
\* what a step leaves in last: the operation, its arguments (new_values; for
\* __exit__, whether the body raised), the exception raised or NoError, what
\* was returned (data and token of _read_profile, text of a getter), and the
\* requests sent, in order
Outcome(op, new_values, exc, err, data, token, text, log) ==
    [op |-> op, new_values |-> new_values, exc |-> exc, err |-> err,
     data |-> data, token |-> token, text |-> text, log |-> log]

\* the dictionaries callers pass to _write_profile, as items(): the empty
\* one, every one of one key, and some of two keys
NewValues ==
    {<< >>}
    \cup {<<<<k, v>>>> : k \in WriteKeys, v \in PyValues}
    \cup {<<<<_ftp, PyInt(260)>>, <<_weight, PyStr("260")>>>>,
          <<<<"Units", PyStr("260")>>, <<"Bogus", PyInt(260)>>>>,
          <<<<"Bogus", PyInt(260)>>, <<"Other", PyInt(260)>>>>}

\* the few of them the runs of SpecSessions use
SessionNewValues == {<< >>, <<<<_ftp, PyInt(260)>>>>, <<<<"Bogus", PyInt(260)>>>>}

\* the service of the runs of SpecSessions stores a post or ignores it
StoreOrIgnore == {b \in PostBehaviours : b.kind # "alter"}

\* last when the caller has dropped the outcome of its last call
Nothing == Outcome("none", << >>, FALSE, NoError, EmptyMap, "", "", << >>)

\* the answers to choose from for a request: one fixed answer when the
\* request is not sent
Answers(sent, S) == IF sent THEN S ELSE {200}

\* in how many names two forms differ
Differences(f, g) == Cardinality({n \in FormNames : f[n] # g[n]})

Init ==
    /\ session = None
    /\ created = 0
    /\ loggedIn = {}
    /\ form = DefaultForm
    /\ changes = 0
    /\ inScope = FALSE
    /\ opened = {}
    /\ idle = TRUE
    /\ last = Nothing

Connect(limit) ==
    /\ last = Nothing
    /\ created < limit
    /\ \E status \in LoginStatuses :
          LET c == connect(status)
          IN  /\ session' = c.session
              /\ created' = c.session
              /\ loggedIn' = c.loggedIn
              /\ opened' = IF inScope THEN opened \cup {c.session} ELSE opened
              /\ last' = Outcome("connect", << >>, FALSE, c.err, EmptyMap, "", "", c.log)
    /\ idle' = FALSE
    /\ UNCHANGED <<form, changes, inScope>>

Disconnect ==
    /\ last = Nothing
    /\ \E status \in Answers(session # None, LoginStatuses) :
          LET d == disconnect(status)
          IN  /\ session' = d.session
              /\ loggedIn' = d.loggedIn
              /\ idle' = (idle \/ (d.err = NoError))
              /\ last' = Outcome("disconnect", << >>, FALSE, d.err, EmptyMap, "", "", d.log)
    /\ UNCHANGED <<created, form, changes, inScope, opened>>

\* with TrainerRoad(...) as t: the block is entered when connect() returns
Enter(limit) ==
    /\ last = Nothing
    /\ ~inScope
    /\ created < limit
    /\ \E status \in LoginStatuses :
          LET c == connect(status)
          IN  /\ session' = c.session
              /\ created' = c.session
              /\ loggedIn' = c.loggedIn
              /\ inScope' = (c.err = NoError)
              /\ opened' = {c.session}
              /\ last' = Outcome("__enter__", << >>, FALSE, c.err, EmptyMap, "", "", c.log)
    /\ idle' = FALSE
    /\ UNCHANGED <<form, changes>>

\* __exit__ calling disconnect() only when the body did not raise
Exit_unless_raised ==
    /\ last = Nothing
    /\ inScope
    /\ \E status \in Answers(session # None, LoginStatuses), exc \in BOOLEAN :
          LET d == IF exc
                   THEN [session |-> session, loggedIn |-> loggedIn, err |-> NoError,
                         log |-> << >>]
                   ELSE disconnect(status)
          IN  /\ session' = d.session
              /\ loggedIn' = d.loggedIn
              /\ idle' = (idle \/ (d.err = NoError /\ ~exc))
              /\ last' = Outcome("__exit__", << >>, exc, d.err, EmptyMap, "", "", d.log)
    /\ inScope' = FALSE
    /\ UNCHANGED <<created, form, changes, opened>>

\* the block is left, normally or by an exception of its body (exc)
Exit ==
    /\ last = Nothing
    /\ inScope
    /\ \E status \in Answers(session # None, LoginStatuses), exc \in BOOLEAN :
          LET d == disconnect(status)
          IN  /\ session' = d.session
              /\ loggedIn' = d.loggedIn
              /\ idle' = (idle \/ (d.err = NoError))
              /\ last' = Outcome("__exit__", << >>, exc, d.err, EmptyMap, "", "", d.log)
    /\ inScope' = FALSE
    /\ UNCHANGED <<created, form, changes, opened>>

\* a read that drops the session when it fails
ReadProfile_drops_session ==
    /\ \E status \in Answers(session # None, ProfileStatuses) :
          LET r == _read_profile(status, form)
          IN  /\ last' = Outcome("_read_profile", << >>, FALSE, r.err, r.data, r.token, "",
                                 r.log)
              /\ session' = IF r.err # NoError THEN None ELSE session
    /\ UNCHANGED <<created, loggedIn, form, changes, inScope, opened, idle>>

ReadProfile ==
    /\ \E status \in Answers(session # None, ProfileStatuses) :
          LET r == _read_profile(status, form)
          IN  last' = Outcome("_read_profile", << >>, FALSE, r.err, r.data, r.token, "", r.log)
    /\ UNCHANGED <<session, created, loggedIn, form, changes, inScope, opened, idle>>

\* a call of _write_profile with the service's answers to the requests it
\* sends, the service treating a post in one of the given ways; each name of
\* the service's form that the post changes counts as a change
Write(op, new_values, behaviours) ==
    /\ last = Nothing
    /\ \E s1 \in Answers(session # None, ProfileStatuses) :
       \E posts \in {LET r1 == _read_profile(s1, form)
                     IN  r1.err = NoError /\ Update(r1.data, new_values, 1).err = NoError} :
       \E s2 \in Answers(posts, ProfileStatuses) :
       \E s3 \in Answers(posts /\ s2 = 200, ProfileStatuses) :
       \E beh \in IF posts /\ s2 = 200 THEN behaviours ELSE {Ignore} :
       \E w \in {_write_profile(new_values, s1, s2, s3, beh)} :
       \E n \in {Differences(form, w.form)} :
           /\ changes + n <= MaxChanges
           /\ form' = w.form
           /\ changes' = changes + n
           /\ last' = Outcome(op, new_values, FALSE, w.err, EmptyMap, "", "", w.log)
    /\ UNCHANGED <<session, created, loggedIn, inScope, opened, idle>>

WriteProfile(dictionaries, behaviours) ==
    \E new_values \in dictionaries : Write("_write_profile", new_values, behaviours)

\* a property getter: the named field of a profile read
Getter(op, name) ==
    /\ \E status \in Answers(session # None, ProfileStatuses) :
          LET r == _read_profile(status, form)
          IN  last' = Outcome(op, << >>, FALSE, r.err, EmptyMap, "",
                              IF r.err = NoError THEN r.data[name] ELSE "", r.log)
    /\ UNCHANGED <<session, created, loggedIn, form, changes, inScope, opened, idle>>

GetFtp == Getter("ftp", _ftp)

\* the ftp setter writing the weight field
SetFtp_writes_weight(values, behaviours) ==
    \E value \in values : Write("ftp.setter", <<<<_weight, value>>>>, behaviours)

SetFtp(values, behaviours) ==
    \E value \in values : Write("ftp.setter", <<<<_ftp, value>>>>, behaviours)

GetWeight == Getter("weight", _weight)

SetWeight(values, behaviours) ==
    \E value \in values : Write("weight.setter", <<<<_weight, value>>>>, behaviours)

\* the service's form changes without the client: another login of the same
\* rider edits the profile, the service renews the token or drops a field
ServiceEdit ==
    /\ last = Nothing
    /\ changes < MaxChanges
    /\ \E n \in FormNames :
        \E a \in Alternatives(n) :
          /\ form[n] # a
          /\ form' = [form EXCEPT ![n] = a]
    /\ changes' = changes + 1
    /\ last' = Nothing
    /\ UNCHANGED <<session, created, loggedIn, inScope, opened, idle>>

\* The outcome of a call stays in last until the caller drops it.  No method
\* reads it, so what the client and the service do next does not depend on
\* it: the runs start every call but a read from a dropped outcome, and a
\* read from any outcome.
Forget ==
    /\ last # Nothing
    /\ last' = Nothing
    /\ UNCHANGED <<session, created, loggedIn, form, changes, inScope, opened, idle>>

\* one connection outside any "with" block, every dictionary, a service whose
\* form changes
Next ==
    \/ Connect(MaxConnects)
    \/ Disconnect
    \/ ReadProfile
    \/ WriteProfile(NewValues, PostBehaviours)
    \/ GetFtp
    \/ SetFtp(PyValues, PostBehaviours)
    \/ GetWeight
    \/ SetWeight(PyValues, PostBehaviours)
    \/ ServiceEdit
    \/ Forget

Spec == Init /\ [][Next]_vars

\* several connections, "with" blocks, a few dictionaries, a service that
\* stores a post or ignores it
NextSessions ==
    \/ Connect(MaxSessions)
    \/ Disconnect
    \/ Enter(MaxSessions)
    \/ Exit
    \/ ReadProfile
    \/ WriteProfile(SessionNewValues, StoreOrIgnore)
    \/ GetFtp
    \/ SetFtp({PyInt(260)}, StoreOrIgnore)
    \/ GetWeight
    \/ SetWeight({PyInt(260)}, StoreOrIgnore)
    \/ Forget

SpecSessions == Init /\ [][NextSessions]_vars

(***************************************************************************)
(* The vocabulary of the specification.                                    *)
(***************************************************************************)
\* the error taxonomy, as the exceptions of the code that stand for each
AuthenticationError ==
    {ErrLogin(c) : c \in LoginStatuses} \cup {ErrLogout(c) : c \in LoginStatuses}
NotConnectedError == {ErrNotConnected}
RequestError ==
    {ErrGet(c) : c \in ProfileStatuses} \cup {ErrPost(c) : c \in ProfileStatuses}
ParseError == {ErrNotFound(n) : n \in FormNames}
ValidationError == {ErrKey(k) : k \in {"Bogus", "Other"}}
VerificationError == {ErrVerify}

KnownFields ==
    {"Ftp", "Weight", "Marketing", "TimeZoneId", "IsMale", "IsPrivate", "Units",
     "IsVirtualPowerEnabled"}

ReadOps == {"_read_profile", "ftp", "weight"}
WriteOps == {"_write_profile", "ftp.setter", "weight.setter"}
ProfileOps == ReadOps \cup WriteOps
ConnectOps == {"connect", "__enter__"}
DisconnectOps == {"disconnect", "__exit__"}

\* a login or logout status that counts as success
Accepted(status) == status \in {200, 302}

\* the page holds every field and the token
Complete(page) == \A n \in KnownFields \cup {"__RequestVerificationToken"} : page[n] # << >>

\* the field map a complete page shows
Snapshot(page) == [k \in KnownFields |-> page[k][1]]

\* the map M with each key of the dictionary replaced by str(value)
Merged(M, new_values) ==
    [k \in KnownFields |->
        IF \E i \in 1..Len(new_values) : new_values[i][1] = k
        THEN str(new_values[CHOOSE i \in 1..Len(new_values) : new_values[i][1] = k][2])
        ELSE M[k]]

\* the first request of the log is a profile GET answered with a complete page
FirstReadOk(log) == Len(log) >= 1 /\ log[1].status = 200 /\ Complete(log[1].page)

\* the service's form f shows every posted field as posted, and a token
StoresPosted(f, data) ==
    /\ f["__RequestVerificationToken"] # << >>
    /\ \A n \in KnownFields : f[n] # << >> /\ f[n][1] = data[n]

HasUnknownKey(new_values) ==
    \E i \in 1..Len(new_values) : new_values[i][1] \notin KnownFields

NoProfilePost(log) ==
    \A i \in 1..Len(log) : ~(log[i].method = "POST" /\ log[i].url = _rider_url)

\* the request was answered with a status its caller takes for a failure
RequestFails(r) ==
    IF r.url \in {_login_url, _logout_url} THEN ~Accepted(r.status) ELSE r.status # 200

(***************************************************************************)
(* C1.  A write_profile({k: v}) with k a known field, on a client whose    *)
(* first read shows the field map M, against a service that answers 200    *)
(* and stores what is posted, succeeds; and a read_profile() that follows  *)
(* it (answered 200) returns M with field k equal to str(v).               *)
(***************************************************************************)
C1_WriteThenRead ==
    [][/\ (last'.op \in WriteOps /\ Len(last'.new_values) = 1
             /\ ~HasUnknownKey(last'.new_values) /\ FirstReadOk(last'.log)) =>
            /\ Len(last'.log) >= 2
            /\ last'.log[2].method = "POST"
            /\ (last'.log[2].status = 200 /\ StoresPosted(form', last'.log[2].data)) =>
                  /\ Len(last'.log) = 3
                  /\ last'.log[3].status = 200 => last'.err = NoError
       /\ (last.op \in WriteOps /\ last.err = NoError /\ Len(last.new_values) = 1
             /\ ~HasUnknownKey(last.new_values)
             /\ last'.op = "_read_profile" /\ Len(last'.log) = 1
             /\ last'.log[1].status = 200) =>
            /\ last'.err = NoError
            /\ last'.data = [Snapshot(last.log[1].page)
                                EXCEPT ![last.new_values[1][1]] = str(last.new_values[1][2])]]_vars

\* a read that returns what a write put into a select field
C1_Witness ==
    /\ last.op = "_read_profile"
    /\ last.err = NoError
    /\ last.data["Units"] = "260"
    /\ last.data[_ftp] = "250"

(***************************************************************************)
(* C2.  Whenever the client has no active session (no connect() yet, or    *)
(* none since the last successful disconnect()), a profile operation fails *)
(* with NotConnectedError and sends no HTTP request.                       *)
(***************************************************************************)
C2_NoSessionNoRequest ==
    [][(idle /\ last'.op \in ProfileOps)
          => (last'.err \in NotConnectedError /\ last'.log = << >>)]_vars

\* a getter refused after a connect() and a successful disconnect()
C2_Witness ==
    /\ idle
    /\ created > 0
    /\ last.op = "ftp"
    /\ last.err \in NotConnectedError

(***************************************************************************)
(* C3.  As claimed: write_profile with a key outside the known field set   *)
(* fails with ValidationError in every state, and sends no POST to the     *)
(* profile endpoint.                                                       *)
(***************************************************************************)
C3_AlwaysValidationError ==
    (last.op \in WriteOps /\ HasUnknownKey(last.new_values)) =>
        (last.err \in ValidationError /\ NoProfilePost(last.log))

(***************************************************************************)
(* C3, amended.  write_profile with a key outside the known field set      *)
(* always fails and sends no POST to the profile endpoint; it fails with   *)
(* ValidationError when its first read of the profile succeeds, and with   *)
(* that read's NotConnectedError, RequestError or ParseError otherwise.    *)
(***************************************************************************)
C3_UnknownKey ==
    (last.op \in WriteOps /\ HasUnknownKey(last.new_values)) =>
        /\ last.err # NoError
        /\ NoProfilePost(last.log)
        /\ FirstReadOk(last.log) => (last.err \in ValidationError /\ Len(last.log) = 1)
        /\ ~FirstReadOk(last.log) =>
              last.err \in NotConnectedError \cup RequestError \cup ParseError

\* an unknown key refused after the read
C3_Witness ==
    /\ last.op = "_write_profile"
    /\ HasUnknownKey(last.new_values)
    /\ last.err \in ValidationError
    /\ Len(last.log) = 1

(***************************************************************************)
(* C4.  As claimed: once a "with" block has ended, no session opened by it *)
(* (by its connect() on entry or by a connect() of its body) is still      *)
(* logged in on the service.                                               *)
(***************************************************************************)
C4_NoSessionLeftLoggedIn == ~inScope => (opened \cap loggedIn = {})

(***************************************************************************)
(* C4, amended.  A "with" block is entered by a connect() that succeeded   *)
(* and is not entered when connect() fails; it is left only by __exit__,   *)
(* which calls disconnect() whether or not the body raised: when the       *)
(* client holds a session, it sends one logout GET on it, and when that is *)
(* answered 200 or 302 the session is logged out and the client's session  *)
(* is cleared.                                                             *)
(***************************************************************************)
C4_ScopedSession ==
    [][/\ (~inScope /\ inScope') =>
            /\ last'.op = "__enter__"
            /\ last'.err = NoError
            /\ Len(last'.log) = 1
            /\ last'.log[1].url = _login_url
            /\ session' \in loggedIn'
       /\ (last'.op = "__enter__" /\ last'.err # NoError) => ~inScope'
       /\ (inScope /\ ~inScope') =>
            /\ last'.op = "__exit__"
            /\ session # None =>
                 /\ Len(last'.log) = 1
                 /\ last'.log[1].method = "GET"
                 /\ last'.log[1].url = _logout_url
                 /\ last'.log[1].sid = session
                 /\ Accepted(last'.log[1].status) =>
                        (session \notin loggedIn' /\ session' = None)]_vars

\* a block left by an exception of its body, whose session was logged out
C4_Witness ==
    /\ last.op = "__exit__"
    /\ last.exc
    /\ Len(last.log) = 1
    /\ Accepted(last.log[1].status)
    /\ opened # {}
    /\ opened \cap loggedIn = {}

(***************************************************************************)
(* C5.  connect() sends the login POST and succeeds exactly when its       *)
(* status is 200 or 302, failing with AuthenticationError otherwise; a     *)
(* read_profile() that follows a successful connect() is not refused with  *)
(* NotConnectedError: it sends its GET on the session connect() made.      *)
(***************************************************************************)
C5_Connect ==
    [][/\ last'.op = "connect" =>
            /\ Len(last'.log) = 1
            /\ last'.log[1].url = _login_url
            /\ (last'.err = NoError) <=> Accepted(last'.log[1].status)
            /\ last'.err # NoError => last'.err \in AuthenticationError
       /\ (last.op = "connect" /\ last.err = NoError /\ last'.op = "_read_profile") =>
            /\ last'.err \notin NotConnectedError
            /\ Len(last'.log) = 1
            /\ last'.log[1].sid = last.log[1].sid]_vars

\* a connect() that succeeded on a redirect
C5_Witness ==
    /\ last.op = "connect"
    /\ last.err = NoError
    /\ last.log[1].status = 302
    /\ session \in loggedIn

(***************************************************************************)
(* C6.  As claimed: a disconnect() whose logout is answered with a status  *)
(* outside {200, 302} fails with AuthenticationError, and a profile        *)
(* operation that follows it fails with NotConnectedError.                 *)
(***************************************************************************)
C6_FailedLogoutUnusable ==
    [][/\ (last'.op = "disconnect" /\ Len(last'.log) = 1
             /\ ~Accepted(last'.log[1].status)) => last'.err \in AuthenticationError
       /\ (last.op = "disconnect" /\ last.err \in AuthenticationError
             /\ last'.op \in ProfileOps) => last'.err \in NotConnectedError]_vars

(***************************************************************************)
(* C7.  write_profile returns successfully only if its re-read, answered   *)
(* 200 with a complete page, shows field for field the map its first read  *)
(* showed with each given key replaced by str(value); and when the re-read *)
(* shows a map that differs from that in any field, written or not, it     *)
(* fails with VerificationError.                                           *)
(***************************************************************************)
C7_Verification ==
    last.op \in WriteOps =>
        /\ last.err = NoError =>
              /\ Len(last.log) = 3
              /\ FirstReadOk(last.log)
              /\ last.log[3].status = 200
              /\ Complete(last.log[3].page)
              /\ Snapshot(last.log[3].page)
                    = Merged(Snapshot(last.log[1].page), last.new_values)
        /\ (Len(last.log) = 3 /\ last.log[3].status = 200 /\ Complete(last.log[3].page)
              /\ Snapshot(last.log[3].page)
                    # Merged(Snapshot(last.log[1].page), last.new_values)) =>
              last.err \in VerificationError

\* a write refused because a field the caller did not write had changed
C7_Witness ==
    /\ last.op \in WriteOps
    /\ last.err \in VerificationError
    /\ Len(last.log) = 3
    /\ \E k \in KnownFields :
          /\ \A i \in 1..Len(last.new_values) : last.new_values[i][1] # k
          /\ Snapshot(last.log[3].page)[k] # Snapshot(last.log[1].page)[k]

(***************************************************************************)
(* C8.  A read_profile whose GET is answered 200 is given the form the     *)
(* service holds; when the page shows all eight fields and the token it    *)
(* returns the map of exactly those eight fields, each with the value the  *)
(* page shows, and the token apart from the map; otherwise it fails with   *)
(* ParseError and returns no map at all.                                   *)
(***************************************************************************)
C8_ReadProfile ==
    (last.op = "_read_profile" /\ Len(last.log) = 1 /\ last.log[1].status = 200) =>
        LET page == last.log[1].page
        IN  /\ last.log[1].sid \in loggedIn => page = form
            /\ Complete(page) =>
                  /\ last.err = NoError
                  /\ DOMAIN last.data = KnownFields
                  /\ \A k \in KnownFields : last.data[k] = page[k][1]
                  /\ last.token = page["__RequestVerificationToken"][1]
            /\ ~Complete(page) =>
                  /\ last.err \in ParseError
                  /\ last.data = EmptyMap

\* a read refused because one select field had no selected option
C8_Witness ==
    /\ last.op = "_read_profile"
    /\ last.err \in ParseError
    /\ last.log[1].page["Units"] = << >>
    /\ \A n \in FormNames \ {"Units"} : last.log[1].page[n] # << >>

(***************************************************************************)
(* C9.  No operation retries: connect() sends exactly one login POST,      *)
(* disconnect() at most one logout GET, a read at most one profile GET, a  *)
(* write at most a GET, a POST and a GET of the profile in that order; a   *)
(* request answered with a failing status is the last one of its           *)
(* operation, which fails with the error of that request.                  *)
(***************************************************************************)
C9_NoRetry ==
    LET log == last.log
    IN  /\ last.op \in ConnectOps =>
              (Len(log) = 1 /\ log[1].method = "POST" /\ log[1].url = _login_url)
        /\ last.op \in DisconnectOps =>
              (Len(log) <= 1 /\ \A i \in 1..Len(log) :
                                   log[i].method = "GET" /\ log[i].url = _logout_url)
        /\ last.op \in ReadOps =>
              (Len(log) <= 1 /\ \A i \in 1..Len(log) :
                                   log[i].method = "GET" /\ log[i].url = _rider_url)
        /\ last.op \in WriteOps =>
              (Len(log) <= 3 /\ \A i \in 1..Len(log) :
                                   /\ log[i].method = <<"GET", "POST", "GET">>[i]
                                   /\ log[i].url = _rider_url)
        /\ last.op \notin ConnectOps \cup DisconnectOps \cup ReadOps \cup WriteOps =>
              log = << >>
        /\ \A i \in 1..Len(log) :
              RequestFails(log[i]) =>
                  /\ i = Len(log)
                  /\ last.err \in (IF log[i].url = _rider_url
                                   THEN RequestError ELSE AuthenticationError)

\* a write whose POST failed: two requests, no re-read
C9_Witness ==
    /\ last.op \in WriteOps
    /\ Len(last.log) = 2
    /\ last.log[2].status # 200
    /\ last.err \in RequestError

(***************************************************************************)
(* C10.  As claimed: disconnect() called when the client has no active     *)
(* session fails with NotConnectedError.                                   *)
(***************************************************************************)
C10_DisconnectNotConnected ==
    [][(idle /\ last'.op = "disconnect") => last'.err \in NotConnectedError]_vars

(***************************************************************************)
(* C11.  Each setter is a write_profile of exactly one key, its own field: *)
(* what it posts is the map its first read showed with that field replaced *)
(* by str(v).  When the service answered the POST with 200 and holds what  *)
(* was posted, a getter of the same field that follows (answered 200)      *)
(* returns str(v), and a getter of the other field returns what that field *)
(* was before the setter.                                                  *)
(***************************************************************************)
\* the two accessor pairs: setter, getter and field of each
Accessors ==
    {[set |-> "ftp.setter", get |-> "ftp", name |-> "Ftp"],
     [set |-> "weight.setter", get |-> "weight", name |-> "Weight"]}

C11_Setters ==
    [][\A a \in Accessors :
         /\ last'.op = a.set =>
              /\ Len(last'.new_values) = 1
              /\ last'.new_values[1][1] = a.name
              /\ Len(last'.log) >= 2 =>
                   [k \in KnownFields |-> last'.log[2].data[k]]
                      = [Snapshot(last'.log[1].page)
                            EXCEPT ![a.name] = str(last'.new_values[1][2])]
         /\ (last.op = a.set /\ Len(last.log) >= 2 /\ last.log[2].status = 200
               /\ StoresPosted(form, last.log[2].data)
               /\ last'.op \in {b.get : b \in Accessors}
               /\ Len(last'.log) = 1 /\ last'.log[1].status = 200) =>
              /\ last'.err = NoError
              /\ last'.op = a.get => last'.text = str(last.new_values[1][2])
              /\ last'.op # a.get =>
                   \E b \in Accessors :
                      /\ b.get = last'.op
                      /\ last'.text = Snapshot(last.log[1].page)[b.name]]_vars

\* the weight getter returning what the weight setter wrote, the ftp as it was
C11_Witness ==
    /\ last.op = "weight"
    /\ last.err = NoError
    /\ last.text = "260"
    /\ form["Ftp"] = <<"250">>
    /\ form["Weight"] = <<"260">>

(***************************************************************************)
(* C12.  Every POST of a write_profile is its second request, sent to the  *)
(* profile endpoint after a profile GET of the same call that was answered *)
(* 200 with a complete page; it carries the token that page shows and      *)
(* exactly the eight fields, each given key as str(value) and every other  *)
(* field as that page shows it.                                            *)
(***************************************************************************)
C12_PostAfterRead ==
    last.op \in WriteOps =>
        \A i \in 1..Len(last.log) :
            last.log[i].method = "POST" =>
                /\ i = 2
                /\ last.log[i].url = _rider_url
                /\ last.log[1].method = "GET"
                /\ last.log[1].url = _rider_url
                /\ FirstReadOk(last.log)
                /\ DOMAIN last.log[i].data = KnownFields \cup {"__RequestVerificationToken"}
                /\ last.log[i].data["__RequestVerificationToken"]
                      = last.log[1].page["__RequestVerificationToken"][1]
                /\ [k \in KnownFields |-> last.log[i].data[k]]
                      = Merged(Snapshot(last.log[1].page), last.new_values)

\* a POST carrying the token the service issued after the client connected,
\* with one field written and the others as read
C12_Witness ==
    /\ last.op \in WriteOps
    /\ Len(last.new_values) = 1
    /\ Len(last.log) >= 2
    /\ last.log[2].data["__RequestVerificationToken"] = "tok-B"
    /\ last.log[2].data["Units"] = "Metric"

(***************************************************************************)
(* C13.  As claimed: whatever connect() and disconnect() calls one client  *)
(* has made, at most one session that it opened is logged in on the        *)
(* service.                                                                *)
(***************************************************************************)
C13_AtMostOneLoggedIn == Cardinality(loggedIn) <= 1

(***************************************************************************)
(* C14.  As claimed: whenever a write_profile fails, with whatever error,  *)
(* the profile the service holds is the same as before the call.           *)
(***************************************************************************)
C14_FailedWriteChangesNothing ==
    [][(last'.op \in WriteOps /\ last'.err # NoError) => form' = form]_vars

(***************************************************************************)
(* C15.  As claimed: the client's session is set only if its most recent   *)
(* connect() succeeded and no successful disconnect() followed; a          *)
(* read_profile() that follows a connect() that failed with                *)
(* AuthenticationError fails with NotConnectedError and sends no request.  *)
(***************************************************************************)
C15_FailedConnectNotConnected ==
    [][/\ (last'.op \in ConnectOps /\ last'.err \in AuthenticationError) => session' = None
       /\ (last.op \in ConnectOps /\ last.err \in AuthenticationError
             /\ last'.op = "_read_profile") =>
            (last'.err \in NotConnectedError /\ last'.log = << >>)]_vars

(***************************************************************************)
(* C16.  read_profile and the two getters are read-only: each sends at     *)
(* most one request, a GET of the profile URL, and whether it succeeds or  *)
(* fails it leaves the service's form, the service's logged-in sessions    *)
(* and the client's session as they were; a read that follows one that     *)
(* failed with RequestError or ParseError is not refused with              *)
(* NotConnectedError: it sends its GET on the same session.                *)
(***************************************************************************)
C16_ReadOnly ==
    [][last'.op \in ReadOps =>
          /\ form' = form
          /\ loggedIn' = loggedIn
          /\ session' = session
          /\ created' = created
          /\ Len(last'.log) <= 1
          /\ \A i \in 1..Len(last'.log) :
                /\ last'.log[i].method = "GET"
                /\ last'.log[i].url = _rider_url
                /\ last'.log[i].sid = session
          /\ (last.op \in ReadOps /\ last.err \in RequestError \cup ParseError) =>
                /\ last'.err \notin NotConnectedError
                /\ Len(last'.log) = 1
                /\ last'.log[1].sid = last.log[1].sid]_vars

\* a getter that failed on a form with a field missing, the client still
\* holding its logged-in session
C16_Witness ==
    /\ last.op = "weight"
    /\ last.err \in ParseError
    /\ Len(last.log) = 1
    /\ session # None
    /\ session \in loggedIn
    /\ form # DefaultForm
====
